---- MODULE Spec2Model ----
(***************************************************************************)
(* Model of tools/generate_taint_models/generator_specifications.py:       *)
(* the three NamedTuple record types AnnotationSpecification,              *)
(* WhitelistSpecification and DecoratorAnnotationSpecification, the        *)
(* operations a NamedTuple gives its holder (construction, attribute read, *)
(* attribute assignment, equality), the set objects the whitelist fields   *)
(* refer to, and the consumer that looks records up by decorator.          *)
(***************************************************************************)
EXTENDS Integers, Sequences, FiniteSets, TLC

VARIABLES call, heap, table, published, obs, outcome

vars == <<call, heap, table, published, obs, outcome>>

(***************************************************************************)
(* Bounds and input universes.                                             *)
(***************************************************************************)
MaxTable == 2
NumReaders == 2

Readers == 1..NumReaders

DecoratorNames == {"", "staticmethod", "cached_property"}
TypeNames == {"int", "str"}
ParamNames == {"self", "value"}
ParamKinds == {"arg", "vararg", "kwarg"}

(***************************************************************************)
(* Python values held in a tuple slot: None, a str, or a reference to a    *)
(* set object living on the heap (sets are mutable objects held by         *)
(* reference).                                                             *)
(***************************************************************************)
None == [kind |-> "None", s |-> "", r |-> 0]
Str(x) == [kind |-> "str", s |-> x, r |-> 0]
Ref(o) == [kind |-> "set", s |-> "", r |-> o]

(***************************************************************************)
(* Arguments of a constructor call: a keyword is omitted, or carries a str *)
(* or a set literal.                                                       *)
(***************************************************************************)
Omitted == [kind |-> "omitted", s |-> "", m |-> {}]
ArgStr(x) == [kind |-> "str", s |-> x, m |-> {}]
ArgSet(S) == [kind |-> "set", s |-> "", m |-> S]

(***************************************************************************)
(* Field declarations.  `name: Optional[T] = None` is an optional field    *)
(* with default None; `name: str` is a required field.                     *)
(***************************************************************************)
OptionalField(n, t) == [name |-> n, type |-> t, required |-> FALSE, default |-> None]
RequiredField(n, t) == [name |-> n, type |-> t, required |-> TRUE, default |-> None]

\* faulty variant: returns defaults to "" instead of None
AnnotationSpecification_EmptyDefault ==
  << OptionalField("arg", "str"),
     OptionalField("vararg", "str"),
     OptionalField("kwarg", "str"),
     [name |-> "returns", type |-> "str", required |-> FALSE, default |-> Str("")] >>

\* faulty variant: vararg and kwarg declared in the other order
AnnotationSpecification_Reordered ==
  << OptionalField("arg", "str"),
     OptionalField("kwarg", "str"),
     OptionalField("vararg", "str"),
     OptionalField("returns", "str") >>

AnnotationSpecification ==
  << OptionalField("arg", "str"),
     OptionalField("vararg", "str"),
     OptionalField("kwarg", "str"),
     OptionalField("returns", "str") >>

WhitelistSpecification ==
  << OptionalField("parameter_type", "set"),
     OptionalField("parameter_name", "set") >>

\* faulty variant: decorator declared with a None default
DecoratorAnnotationSpecification_OptionalDecorator ==
  << OptionalField("decorator", "str"),
     OptionalField("arg_annotation", "str"),
     OptionalField("vararg_annotation", "str"),
     OptionalField("kwarg_annotation", "str"),
     OptionalField("return_annotation", "str"),
     OptionalField("parameter_type_whitelist", "set"),
     OptionalField("parameter_name_whitelist", "set") >>

\* faulty variant: return_annotation defaults to "Any"
DecoratorAnnotationSpecification_ReturnDefault ==
  << RequiredField("decorator", "str"),
     OptionalField("arg_annotation", "str"),
     OptionalField("vararg_annotation", "str"),
     OptionalField("kwarg_annotation", "str"),
     [name |-> "return_annotation", type |-> "str", required |-> FALSE,
      default |-> Str("Any")],
     OptionalField("parameter_type_whitelist", "set"),
     OptionalField("parameter_name_whitelist", "set") >>

DecoratorAnnotationSpecification ==
  << RequiredField("decorator", "str"),
     OptionalField("arg_annotation", "str"),
     OptionalField("vararg_annotation", "str"),
     OptionalField("kwarg_annotation", "str"),
     OptionalField("return_annotation", "str"),
     OptionalField("parameter_type_whitelist", "set"),
     OptionalField("parameter_name_whitelist", "set") >>

Classes ==
  {"AnnotationSpecification", "WhitelistSpecification",
   "DecoratorAnnotationSpecification"}

Fields(cls) ==
  CASE cls = "AnnotationSpecification" -> AnnotationSpecification
    [] cls = "WhitelistSpecification" -> WhitelistSpecification
    [] cls = "DecoratorAnnotationSpecification" -> DecoratorAnnotationSpecification

FieldNames(cls) == {Fields(cls)[p].name : p \in 1..Len(Fields(cls))}

(***************************************************************************)
(* Construction: NamedTuple.__new__ binds each keyword to the position of  *)
(* the field of that name, fills omitted optional fields with the declared *)
(* default and raises TypeError when a field without a default is omitted. *)
(* A set argument is a fresh set object; the tuple keeps a reference.      *)
(***************************************************************************)
SetRank(fields, kw, p) ==
  Cardinality({q \in 1..p : kw[fields[q].name].kind = "set"})

AllocatedHeap(fields, kw, h) ==
  LET n == SetRank(fields, kw, Len(fields))
      FieldOfRank(k) ==
        CHOOSE p \in 1..Len(fields) :
          kw[fields[p].name].kind = "set" /\ SetRank(fields, kw, p) = k
  IN  [o \in 1..(Len(h) + n) |->
         IF o <= Len(h) THEN h[o] ELSE kw[fields[FieldOfRank(o - Len(h))].name].m]

Bind(fields, kw, h, p) ==
  LET a == kw[fields[p].name]
  IN  CASE a.kind = "omitted" -> fields[p].default
        [] a.kind = "str" -> Str(a.s)
        [] a.kind = "set" -> Ref(Len(h) + SetRank(fields, kw, p))

MissingRequired(fields, kw) ==
  \E p \in 1..Len(fields) : fields[p].required /\ kw[fields[p].name].kind = "omitted"

\* faulty variant: a missing required field is not rejected
New_NoRequiredCheck(cls, kw, h) ==
  LET fields == Fields(cls)
  IN  [error |-> "",
       fields |-> [p \in 1..Len(fields) |-> Bind(fields, kw, h, p)],
       heap |-> AllocatedHeap(fields, kw, h)]

\* faulty variant: every set field refers to the first set object
New_SharedSet(cls, kw, h) ==
  LET fields == Fields(cls)
  IN  IF MissingRequired(fields, kw)
        THEN [error |-> "TypeError", fields |-> <<>>, heap |-> h]
        ELSE [error |-> "",
              fields |-> [p \in 1..Len(fields) |->
                            IF kw[fields[p].name].kind = "set"
                              THEN Ref(Len(h) + 1)
                              ELSE Bind(fields, kw, h, p)],
              heap |-> AllocatedHeap(fields, kw, h)]

New(cls, kw, h) ==
  LET fields == Fields(cls)
  IN  IF MissingRequired(fields, kw)
        THEN [error |-> "TypeError", fields |-> <<>>, heap |-> h]
        ELSE [error |-> "",
              fields |-> [p \in 1..Len(fields) |-> Bind(fields, kw, h, p)],
              heap |-> AllocatedHeap(fields, kw, h)]

(***************************************************************************)
(* Attribute read: each field name is a property that indexes the tuple at *)
(* the position of its declaration.                                        *)
(***************************************************************************)
IndexOf(fields, name) == CHOOSE p \in 1..Len(fields) : fields[p].name = name

\* faulty variant: every property reads slot 1
GetAttr_FirstSlot(rec, name) == rec.fields[1]

\* faulty variant: every property reads the slot after its own
GetAttr_NextSlot(rec, name) ==
  rec.fields[(IndexOf(Fields(rec.cls), name) % Len(rec.fields)) + 1]

GetAttr(rec, name) == rec.fields[IndexOf(Fields(rec.cls), name)]

(***************************************************************************)
(* What a holder sees of a value: its kind, its text, and for a set the    *)
(* members currently in the referenced object.                             *)
(***************************************************************************)
Deref(v, h) ==
  [kind |-> v.kind, s |-> v.s, m |-> IF v.kind = "set" THEN h[v.r] ELSE {}]

DerefTuple(t, h) == [p \in 1..Len(t) |-> Deref(t[p], h)]

(***************************************************************************)
(* Equality: tuple.__eq__ compares lengths and then the items pairwise     *)
(* with ==; None equals only None, strs compare by text, sets by members.  *)
(***************************************************************************)
\* faulty variant: sets compared by identity only
PyEq_Identity(a, b, h) ==
  /\ a.kind = b.kind
  /\ CASE a.kind = "None" -> TRUE
       [] a.kind = "str" -> a.s = b.s
       [] a.kind = "set" -> a.r = b.r

PyEq(a, b, h) ==
  /\ a.kind = b.kind
  /\ CASE a.kind = "None" -> TRUE
       [] a.kind = "str" -> a.s = b.s
       [] a.kind = "set" -> a.r = b.r \/ h[a.r] = h[b.r]

TupleEq(x, y, h) ==
  /\ Len(x) = Len(y)
  /\ \A p \in 1..Len(x) : PyEq(x[p], y[p], h)

(***************************************************************************)
(* Consumer of the records (the model generator): a parameter is exempt    *)
(* when its type name is in the type whitelist or its name is in the name  *)
(* whitelist; on a textual decorator match every parameter that is not     *)
(* exempt gets the annotation of its kind and the return value gets        *)
(* return_annotation.                                                      *)
(***************************************************************************)
WhitelistFields(cls) ==
  CASE cls = "WhitelistSpecification" -> <<"parameter_type", "parameter_name">>
    [] cls = "DecoratorAnnotationSpecification" ->
         <<"parameter_type_whitelist", "parameter_name_whitelist">>

IsExempt(rec, ptype, pname, h) ==
  LET t == GetAttr(rec, WhitelistFields(rec.cls)[1])
      n == GetAttr(rec, WhitelistFields(rec.cls)[2])
  IN  \/ t.kind = "set" /\ ptype \in h[t.r]
      \/ n.kind = "set" /\ pname \in h[n.r]

AnnotationField(kind) ==
  CASE kind = "arg" -> "arg_annotation"
    [] kind = "vararg" -> "vararg_annotation"
    [] kind = "kwarg" -> "kwarg_annotation"

ApplyPolicy(rec, decoratorName, param, h) ==
  LET d == GetAttr(rec, "decorator")
      exempt == IsExempt(rec, param.type, param.name, h)
  IN  IF d.kind = "str" /\ d.s = decoratorName
        THEN [matched |-> TRUE,
              exempt |-> exempt,
              annotation |-> IF exempt THEN None
                             ELSE GetAttr(rec, AnnotationField(param.kind)),
              returns |-> GetAttr(rec, "return_annotation")]
        ELSE [matched |-> FALSE, exempt |-> FALSE, annotation |-> None,
              returns |-> None]

(***************************************************************************)
(* Constructor calls the model draws its inputs from.                      *)
(***************************************************************************)
StrOpts == {Omitted, ArgStr("Any")}
TypeSetOpts == {Omitted, ArgSet({}), ArgSet({"int"})}
NameSetOpts == {Omitted, ArgSet({}), ArgSet({"self"})}
DecoratorOpts == {Omitted} \cup {ArgStr(d) : d \in DecoratorNames}

AnnotationCalls ==
  {[cls |-> "AnnotationSpecification",
    kw |-> [arg |-> a, vararg |-> v, kwarg |-> k, returns |-> r]] :
     a \in StrOpts, v \in StrOpts, k \in StrOpts, r \in StrOpts}

WhitelistCalls ==
  {[cls |-> "WhitelistSpecification",
    kw |-> [parameter_type |-> t, parameter_name |-> n]] :
     t \in TypeSetOpts, n \in NameSetOpts}

DecoratorCalls ==
  {[cls |-> "DecoratorAnnotationSpecification",
    kw |-> [decorator |-> d, arg_annotation |-> a, vararg_annotation |-> v,
            kwarg_annotation |-> k, return_annotation |-> r,
            parameter_type_whitelist |-> t, parameter_name_whitelist |-> n]] :
     d \in DecoratorOpts, a \in StrOpts, v \in StrOpts, k \in StrOpts,
     r \in StrOpts, t \in TypeSetOpts, n \in NameSetOpts}

AllCalls == AnnotationCalls \cup WhitelistCalls \cup DecoratorCalls

StaticmethodCall ==
  [cls |-> "DecoratorAnnotationSpecification",
   kw |-> [decorator |-> ArgStr("staticmethod"), arg_annotation |-> Omitted,
           vararg_annotation |-> Omitted, kwarg_annotation |-> Omitted,
           return_annotation |-> Omitted, parameter_type_whitelist |-> Omitted,
           parameter_name_whitelist |-> Omitted]]

CachedPropertyCall ==
  [cls |-> "DecoratorAnnotationSpecification",
   kw |-> [decorator |-> ArgStr("cached_property"), arg_annotation |-> Omitted,
           vararg_annotation |-> Omitted, kwarg_annotation |-> Omitted,
           return_annotation |-> ArgStr("Any"),
           parameter_type_whitelist |-> Omitted,
           parameter_name_whitelist |-> ArgSet({"self"})]]

TableCalls ==
  {StaticmethodCall, CachedPropertyCall,
   [cls |-> "WhitelistSpecification",
    kw |-> [parameter_type |-> ArgSet({"int"}), parameter_name |-> ArgSet({"self"})]],
   [cls |-> "AnnotationSpecification",
    kw |-> [arg |-> ArgStr("Any"), vararg |-> Omitted, kwarg |-> Omitted,
            returns |-> ArgStr("Any")]]}

VariantArgs(field) ==
  IF field.type = "set"
    THEN {Omitted} \cup {ArgSet(S) : S \in SUBSET {"int", "self"}}
    ELSE {Omitted} \cup {ArgStr(x) : x \in DecoratorNames \cup {"Any"}}

NoCall == [cls |-> "", kw |-> <<>>]
NoObs == [i |-> 0, name |-> "", value |-> Deref(None, <<>>)]
Start == [op |-> "start"]

(***************************************************************************)
(* State: the pending constructor call, the heap of set objects, the table *)
(* of records built so far (each with the arguments it was built from),    *)
(* whether the table is published, what each reader last read, and the     *)
(* outcome of the last operation.                                          *)
(***************************************************************************)
Init ==
  /\ call \in AllCalls
  /\ heap = <<>>
  /\ table = <<>>
  /\ published = FALSE
  /\ obs = [r \in Readers |-> NoObs]
  /\ outcome = Start

InitTable ==
  /\ call = NoCall
  /\ heap = <<>>
  /\ table = <<>>
  /\ published = FALSE
  /\ obs = [r \in Readers |-> NoObs]
  /\ outcome = Start

DoConstruct(c) ==
  LET res == New(c.cls, c.kw, heap)
  IN  /\ outcome' = [op |-> "construct", error |-> res.error]
      /\ IF res.error = ""
           THEN /\ table' = Append(table, [cls |-> c.cls, fields |-> res.fields,
                                           args |-> c.kw])
                /\ heap' = res.heap
           ELSE UNCHANGED <<table, heap>>

\* A run of Spec draws one constructor call, constructs the record and
\* applies one operation to the record just constructed.
Fresh == outcome.op = "construct" /\ outcome.error = ""

\* record = Cls(**kw) for the call drawn as input
Construct ==
  /\ call.cls # ""
  /\ outcome.op = "start"
  /\ DoConstruct(call)
  /\ UNCHANGED <<call, published, obs>>

\* value = record.name
ReadAttr ==
  Fresh /\ \E i \in 1..Len(table) : \E name \in FieldNames(table[i].cls) :
    /\ outcome' = [op |-> "getattr", i |-> i, name |-> name,
                   value |-> Deref(GetAttr(table[i], name), heap)]
    /\ UNCHANGED <<call, heap, table, published, obs>>

\* record == Cls(**{**kw, name: v})
Compare ==
  Fresh /\ \E i \in 1..Len(table) : \E p \in 1..Len(Fields(table[i].cls)) :
    \E v \in VariantArgs(Fields(table[i].cls)[p]) :
      LET name == Fields(table[i].cls)[p].name
          res == New(table[i].cls, [table[i].args EXCEPT ![name] = v], heap)
      IN  /\ res.error = ""
          /\ outcome' = [op |-> "eq", i |-> i, name |-> name, arg |-> v,
                         result |-> TupleEq(table[i].fields, res.fields, res.heap)]
          /\ UNCHANGED <<call, heap, table, published, obs>>

\* the consumer asks whether a parameter is exempt under a whitelist record
CheckExempt ==
  Fresh /\ \E i \in 1..Len(table) : \E ptype \in TypeNames : \E pname \in ParamNames :
    /\ table[i].cls = "WhitelistSpecification"
    /\ outcome' = [op |-> "exempt", i |-> i, ptype |-> ptype, pname |-> pname,
                   result |-> IsExempt(table[i], ptype, pname, heap)]
    /\ UNCHANGED <<call, heap, table, published, obs>>

\* the consumer applies a decorator record to one parameter of a callable
Annotate ==
  Fresh /\ \E i \in 1..Len(table) : \E d \in DecoratorNames : \E k \in ParamKinds :
    \E ptype \in TypeNames : \E pname \in ParamNames :
      LET param == [kind |-> k, type |-> ptype, name |-> pname]
      IN  /\ table[i].cls = "DecoratorAnnotationSpecification"
          /\ outcome' = [op |-> "annotate", i |-> i, decorator |-> d,
                         param |-> param,
                         policy |-> ApplyPolicy(table[i], d, param, heap)]
          /\ UNCHANGED <<call, heap, table, published, obs>>

Next == Construct \/ ReadAttr \/ Compare \/ CheckExempt \/ Annotate

Spec == Init /\ [][Next]_vars

(***************************************************************************)
(* The table builder constructs the records, publishes the table, and then *)
(* readers read fields concurrently.                                       *)
(***************************************************************************)
Build ==
  /\ ~published
  /\ Len(table) < MaxTable
  /\ \E c \in TableCalls : DoConstruct(c)
  /\ UNCHANGED <<call, published, obs>>

Publish ==
  /\ ~published
  /\ Len(table) >= 1
  /\ published' = TRUE
  /\ UNCHANGED <<call, heap, table, obs, outcome>>

Read ==
  \E r \in Readers : \E i \in 1..Len(table) : \E name \in FieldNames(table[i].cls) :
    /\ published
    /\ obs' = [obs EXCEPT ![r] = [i |-> i, name |-> name,
                                  value |-> Deref(GetAttr(table[i], name), heap)]]
    /\ UNCHANGED <<call, heap, table, published, outcome>>

NextShared == Build \/ Publish \/ Read

SpecShared == InitTable /\ [][NextShared]_vars

(***************************************************************************)
(* What a holder of a record can do to it: assign to a field (a NamedTuple *)
(* has no setter, so AttributeError), or call add / discard on the set     *)
(* object a whitelist field refers to.                                     *)
(***************************************************************************)
SetAttr ==
  \E i \in 1..Len(table) : \E name \in FieldNames(table[i].cls) :
    /\ outcome' = [op |-> "setattr", i |-> i, name |-> name,
                   error |-> "AttributeError"]
    /\ UNCHANGED <<call, heap, table, published, obs>>

SetAdd ==
  \E i \in 1..Len(table) : \E name \in FieldNames(table[i].cls) :
    \E x \in ParamNames :
      LET v == GetAttr(table[i], name)
      IN  /\ v.kind = "set"
          /\ heap' = [heap EXCEPT ![v.r] = @ \cup {x}]
          /\ outcome' = [op |-> "add", i |-> i, name |-> name, error |-> ""]
          /\ UNCHANGED <<call, table, published, obs>>

SetDiscard ==
  \E i \in 1..Len(table) : \E name \in FieldNames(table[i].cls) :
    \E x \in ParamNames :
      LET v == GetAttr(table[i], name)
      IN  /\ v.kind = "set"
          /\ heap' = [heap EXCEPT ![v.r] = @ \ {x}]
          /\ outcome' = [op |-> "discard", i |-> i, name |-> name, error |-> ""]
          /\ UNCHANGED <<call, table, published, obs>>

NextHolder == Build \/ SetAttr \/ SetAdd \/ SetDiscard

SpecHolder == InitTable /\ [][NextHolder]_vars

(***************************************************************************)
(* Properties.                                                             *)
(***************************************************************************)
DAS == "DecoratorAnnotationSpecification"

\* what reading back a field built from argument a must show
Expected(a) ==
  IF a.kind = "omitted" THEN Deref(None, <<>>)
  ELSE [kind |-> a.kind, s |-> a.s, m |-> a.m]

OmitsDecorator == call.cls = DAS /\ call.kw.decorator.kind = "omitted"

\* C1: for each of the three record types and every combination of optional
\* fields supplied or omitted, construction succeeds and reading back a field
\* yields the value supplied, or None when the field was omitted; a
\* DecoratorAnnotationSpecification built with only decorator="staticmethod"
\* reports decorator "staticmethod" and None in the six other fields.
C1_RoundTrip ==
  /\ (outcome.op # "start" /\ ~OmitsDecorator) =>
       /\ Len(table) = 1
       /\ table[1].cls = call.cls
       /\ outcome.op = "construct" => outcome.error = ""
  /\ outcome.op = "getattr" =>
       outcome.value = Expected(table[outcome.i].args[outcome.name])
  /\ (outcome.op = "getattr" /\ call = StaticmethodCall) =>
       outcome.value = IF outcome.name = "decorator"
                         THEN [kind |-> "str", s |-> "staticmethod", m |-> {}]
                         ELSE [kind |-> "None", s |-> "", m |-> {}]

C1_Witness ==
  /\ call = StaticmethodCall
  /\ outcome.op = "getattr"
  /\ outcome.name = "return_annotation"
  /\ outcome.value.kind = "None"

\* C2: equality is value-based: a record equals a record of the same type
\* built from identical values in every field, and is unequal to one built
\* from values that differ in one field.
C2_ValueEquality ==
  outcome.op = "eq" =>
    (outcome.result <=>
       Expected(outcome.arg) = Expected(table[outcome.i].args[outcome.name]))

C2_Witness ==
  /\ outcome.op = "eq"
  /\ outcome.result
  /\ outcome.arg.kind = "set"
  /\ outcome.arg.m # {}

\* C3: a parameter is exempt under a WhitelistSpecification if and only if
\* parameter_type is set and contains the parameter's type name, or
\* parameter_name is set and contains the parameter's name; with both sets
\* unset no parameter is exempt.
C3_Exemption ==
  outcome.op = "exempt" =>
    LET a == table[outcome.i].args
    IN  /\ outcome.result <=>
             \/ a.parameter_type.kind = "set" /\ outcome.ptype \in a.parameter_type.m
             \/ a.parameter_name.kind = "set" /\ outcome.pname \in a.parameter_name.m
        /\ (a.parameter_type.kind = "omitted" /\ a.parameter_name.kind = "omitted")
             => ~outcome.result

C3_Witness ==
  /\ outcome.op = "exempt"
  /\ outcome.result
  /\ table[outcome.i].args.parameter_type.kind = "set"
  /\ table[outcome.i].args.parameter_name.kind = "omitted"

\* C4: constructing a DecoratorAnnotationSpecification fails exactly when
\* the decorator is omitted: then it raises and no record is produced, and
\* with a decorator it succeeds whatever optional fields are present.
C4_DecoratorRequired ==
  (call.cls = DAS /\ outcome.op # "start") =>
    /\ OmitsDecorator <=> Len(table) = 0
    /\ outcome.op = "construct" => (OmitsDecorator <=> outcome.error = "TypeError")

C4_Witness ==
  /\ OmitsDecorator
  /\ call.kw.return_annotation.kind = "str"
  /\ outcome.op = "construct"
  /\ outcome.error = "TypeError"
  /\ table = <<>>

\* C5: records are immutable: once a record is constructed, nothing its
\* holder can do changes the value of a field, the members of the sets held
\* in the whitelist fields included.
C5_Immutable ==
  \A i \in 1..Len(table) : \A name \in FieldNames(table[i].cls) :
    Deref(GetAttr(table[i], name), heap) = Expected(table[i].args[name])

\* C6: every DecoratorAnnotationSpecification that exists has a non-empty
\* decorator string.
C6_NonEmptyDecorator ==
  \A i \in 1..Len(table) :
    table[i].cls = DAS => GetAttr(table[i], "decorator") # Str("")

\* C6 (amended): every DecoratorAnnotationSpecification that exists has as
\* decorator the string supplied to its constructor, never None; the empty
\* string is accepted like any other string.
C6_DecoratorSupplied ==
  \A i \in 1..Len(table) :
    table[i].cls = DAS =>
      /\ table[i].args.decorator.kind = "str"
      /\ GetAttr(table[i], "decorator") = Str(table[i].args.decorator.s)

C6_Witness ==
  \E i \in 1..Len(table) :
    table[i].cls = DAS /\ GetAttr(table[i], "decorator") = Str("")

\* C7: when the callable's decorator name matches the record's decorator,
\* a parameter whose type is in parameter_type_whitelist or whose name is in
\* parameter_name_whitelist is skipped, any other parameter gets the
\* annotation of its kind when that field is set and none when it is unset,
\* and the return value gets return_annotation when set.  For
\* decorator="cached_property", return_annotation="Any",
\* parameter_name_whitelist={"self"}: "self" is exempt, "value" is not exempt
\* and gets no annotation, and the return is annotated "Any".
C7_DecoratorPolicy ==
  outcome.op = "annotate" =>
    LET a == table[outcome.i].args
        pol == outcome.policy
        param == outcome.param
        listed ==
          \/ /\ a.parameter_type_whitelist.kind = "set"
             /\ param.type \in a.parameter_type_whitelist.m
          \/ /\ a.parameter_name_whitelist.kind = "set"
             /\ param.name \in a.parameter_name_whitelist.m
    IN  /\ pol.matched <=> a.decorator.s = outcome.decorator
        /\ pol.matched =>
             /\ pol.exempt <=> listed
             /\ pol.exempt => pol.annotation = None
             /\ ~pol.exempt =>
                  Deref(pol.annotation, heap) = Expected(a[AnnotationField(param.kind)])
             /\ Deref(pol.returns, heap) = Expected(a.return_annotation)
        /\ (call = CachedPropertyCall /\ outcome.decorator = "cached_property") =>
             /\ pol.matched
             /\ param.name = "self" => pol.exempt
             /\ param.name = "value" => ~pol.exempt /\ pol.annotation = None
             /\ pol.returns = Str("Any")

C7_Witness ==
  /\ call = CachedPropertyCall
  /\ outcome.op = "annotate"
  /\ outcome.decorator = "cached_property"
  /\ outcome.param.name = "value"
  /\ outcome.policy.matched
  /\ outcome.policy.returns = Str("Any")

\* C8: once the table is built and published, under every interleaving of
\* reader steps each read of a field returns the value the record was
\* constructed with, and two readers never see different values for the
\* same field.
C8_ConcurrentReaders ==
  /\ \A r \in Readers :
       obs[r].i # 0 =>
         /\ published
         /\ obs[r].value = Expected(table[obs[r].i].args[obs[r].name])
  /\ \A r1 \in Readers : \A r2 \in Readers :
       (obs[r1].i # 0 /\ obs[r1].i = obs[r2].i /\ obs[r1].name = obs[r2].name)
         => obs[r1].value = obs[r2].value

C8_Witness ==
  /\ published
  /\ Len(table) >= 2
  /\ obs[1].i = 2 /\ obs[2].i = 2
  /\ obs[1].name = obs[2].name
  /\ obs[1].value.kind = "set"

\* the flattening named by C9
ToAnnotationKw(kw) ==
  [arg |-> kw.arg_annotation, vararg |-> kw.vararg_annotation,
   kwarg |-> kw.kwarg_annotation, returns |-> kw.return_annotation]

ToWhitelistKw(kw) ==
  [parameter_type |-> kw.parameter_type_whitelist,
   parameter_name |-> kw.parameter_name_whitelist]

TripleEq(kw1, kw2) ==
  LET as1 == New("AnnotationSpecification", ToAnnotationKw(kw1), <<>>)
      as2 == New("AnnotationSpecification", ToAnnotationKw(kw2), as1.heap)
      ws1 == New("WhitelistSpecification", ToWhitelistKw(kw1), <<>>)
      ws2 == New("WhitelistSpecification", ToWhitelistKw(kw2), ws1.heap)
  IN  /\ kw1.decorator.s = kw2.decorator.s
      /\ TupleEq(as1.fields, as2.fields, as2.heap)
      /\ TupleEq(ws1.fields, ws2.fields, ws2.heap)

\* C9: the six optional fields of DecoratorAnnotationSpecification are the
\* flattened union of one AnnotationSpecification and one
\* WhitelistSpecification: a DecoratorAnnotationSpecification corresponds to
\* the triple (decorator, AnnotationSpecification, WhitelistSpecification)
\* with the same field order, the same defaults and the same equality.
C9_FlattenedUnion ==
  LET nA == Len(AnnotationSpecification)
      nW == Len(WhitelistSpecification)
  IN  /\ Len(DecoratorAnnotationSpecification) = 1 + nA + nW
      /\ \A p \in 1..nA :
           /\ DecoratorAnnotationSpecification[1 + p].type = AnnotationSpecification[p].type
           /\ DecoratorAnnotationSpecification[1 + p].default = AnnotationSpecification[p].default
           /\ ~DecoratorAnnotationSpecification[1 + p].required
      /\ \A p \in 1..nW :
           /\ DecoratorAnnotationSpecification[1 + nA + p].type = WhitelistSpecification[p].type
           /\ DecoratorAnnotationSpecification[1 + nA + p].default = WhitelistSpecification[p].default
           /\ ~DecoratorAnnotationSpecification[1 + nA + p].required
      /\ \A i \in 1..Len(table) :
           table[i].cls = DAS =>
             LET as == New("AnnotationSpecification", ToAnnotationKw(table[i].args), <<>>)
                 ws == New("WhitelistSpecification", ToWhitelistKw(table[i].args), <<>>)
             IN  /\ as.error = "" /\ ws.error = ""
                 /\ DerefTuple(SubSeq(table[i].fields, 2, 1 + nA), heap)
                      = DerefTuple(as.fields, as.heap)
                 /\ DerefTuple(SubSeq(table[i].fields, 2 + nA, 1 + nA + nW), heap)
                      = DerefTuple(ws.fields, ws.heap)
      /\ (outcome.op = "eq" /\ table[outcome.i].cls = DAS) =>
           (outcome.result <=>
              TripleEq(table[outcome.i].args,
                       [table[outcome.i].args EXCEPT ![outcome.name] = outcome.arg]))

C9_Witness ==
  /\ outcome.op = "eq"
  /\ table[outcome.i].cls = DAS
  /\ table[outcome.i].args.vararg_annotation.kind = "str"
  /\ table[outcome.i].args.kwarg_annotation.kind = "omitted"
  /\ table[outcome.i].args.parameter_name_whitelist.kind = "set"
  /\ outcome.name = "parameter_type_whitelist"
  /\ ~outcome.result

\* C10: an explicitly empty exclusion set and an unset one mean the same:
\* for every parameter, a whitelist whose parameter_type or parameter_name is
\* the empty set gives the same exemption result as the whitelist with that
\* field unset and the other field unchanged.
C10_EmptyIsUnset ==
  outcome.op = "exempt" =>
    \A name \in {"parameter_type", "parameter_name"} :
      table[outcome.i].args[name] = ArgSet({}) =>
        LET res == New("WhitelistSpecification",
                       [table[outcome.i].args EXCEPT ![name] = Omitted], <<>>)
            unset == [cls |-> "WhitelistSpecification", fields |-> res.fields]
        IN  outcome.result = IsExempt(unset, outcome.ptype, outcome.pname, res.heap)

C10_Witness ==
  /\ outcome.op = "exempt"
  /\ table[outcome.i].args.parameter_type = ArgSet({})
  /\ table[outcome.i].args.parameter_name = ArgSet({"self"})
  /\ outcome.pname = "self"
  /\ outcome.result

====
